---- MODULE Spec2Model ----
\* A model of nextest-runner/src/reuse_build/archiver.rs: archive_to_file and the
\* Archiver it drives (Archiver::new, archive, append_from_memory, append_path,
\* append_dir_all), over a small file system and small manifests.
EXTENDS Integers, Sequences, FiniteSets, TLC

\* ---------------------------------------------------------------- bounds
MaxPrimary == 2
MaxGroups == 2
MaxGroupSize == 2
MaxLinked == 2
MaxDepth == 4
MaxNameLen == 6

\* ---------------------------------------------------------------- paths
\* A source path is the sequence of its components; an absolute path starts
\* with the component "ROOT". NoPath stands for None / Err of the path methods.
NoPath == <<"<none>">>

IsPrefix(b, p) == Len(b) <= Len(p) /\ SubSeq(p, 1, Len(b)) = b

\* Utf8Path::strip_prefix. (The variant hands back the whole path when base is
\* no prefix of it.)
strip_prefix_lenient(p, base) ==
    IF IsPrefix(base, p) THEN SubSeq(p, Len(base) + 1, Len(p)) ELSE p
strip_prefix(p, base) ==
    IF IsPrefix(base, p) THEN SubSeq(p, Len(base) + 1, Len(p)) ELSE NoPath

\* Utf8Path::parent. (The variant returns the path itself.)
parent_is_self(p) == p
parent(p) ==
    IF p = <<>> \/ p = <<"ROOT">> THEN NoPath ELSE SubSeq(p, 1, Len(p) - 1)

join(a, b) == IF b # <<>> /\ b[1] = "ROOT" THEN b ELSE a \o b

\* The separator the host's path methods insert.
Sep(h) == IF h = "windows" THEN "\\" ELSE "/"

\* A destination path is kept as its text: components and separators in turn.
RECURSIVE as_str(_, _)
as_str(p, h) ==
    IF p = <<>> THEN <<>>
    ELSE IF Len(p) = 1 THEN p
    ELSE <<p[1], Sep(h)>> \o as_str(Tail(p), h)

\* Utf8Path::join on a text: a separator, then the joined path's own text.
join_str(d, rel, h) ==
    IF d = <<>> THEN as_str(rel, h) ELSE d \o <<Sep(h)>> \o as_str(rel, h)

convert_rel_path_to_forward_slash(s, h) ==
    IF h = "windows"
    THEN [i \in DOMAIN s |-> IF s[i] = "\\" THEN "/" ELSE s[i]]
    ELSE s

\* PathMapper::map_binary: rewrite the target directory prefix when the build
\* tree was relocated; otherwise the path is returned as it is.
map_binary(pm, bl, p) ==
    IF pm.new_target_dir = NoPath THEN p
    ELSE IF IsPrefix(bl.target_directory, p)
         THEN join(pm.new_target_dir, strip_prefix(p, bl.target_directory))
         ELSE p

\* ---------------------------------------------------------------- ArchiveFormat
\* The path given to autodetect is a text over a few symbols: "/" separates
\* components, "." is the dot, "a", "tar" and "zst" stand for runs of letters.
Alphabet == {"a", ".", "tar", "zst", "/"}

\* SUPPORTED_FORMATS: (file extension, format) pairs, in order.
SUPPORTED_FORMATS == << [extension |-> <<".", "tar", ".", "zst">>, format |-> "TarZst"] >>

\* The components of a path text as Utf8Path::components yields them, the root
\* aside: empty pieces and "." pieces are skipped.
RECURSIVE Pieces(_, _)
Pieces(s, cur) ==
    IF s = <<>> THEN <<cur>>
    ELSE IF Head(s) = "/" THEN <<cur>> \o Pieces(Tail(s), <<>>)
    ELSE Pieces(Tail(s), Append(cur, Head(s)))
Components(s) == SelectSeq(Pieces(s, <<>>), LAMBDA c : c # <<>> /\ c # <<".">>)

\* Utf8Path::file_name: the last component when it is a normal one, else None.
\* (The variant takes the whole path.)
file_name_whole_path(s) == s
file_name(s) ==
    LET cs == Components(s) IN
    IF cs = <<>> \/ cs[Len(cs)] = <<".", ".">> THEN NoPath ELSE cs[Len(cs)]

\* str::ends_with. (The variant tests the start of the text.)
starts_with(s, suffix) == Len(suffix) <= Len(s) /\ SubSeq(s, 1, Len(suffix)) = suffix
ends_with(s, suffix) ==
    Len(suffix) <= Len(s) /\ SubSeq(s, Len(s) - Len(suffix) + 1, Len(s)) = suffix

UnknownArchiveFormat(name) == [ok |-> FALSE, format |-> "none", file_name |-> name]
DetectedFormat(f) == [ok |-> TRUE, format |-> f, file_name |-> <<>>]
NotDetected == [ok |-> FALSE, format |-> "pending", file_name |-> <<>>]

\* for (extension, format) in Self::SUPPORTED_FORMATS { .. } from pair i on.
RECURSIVE DetectFrom(_, _)
DetectFrom(i, name) ==
    IF i > Len(SUPPORTED_FORMATS) THEN UnknownArchiveFormat(name)
    ELSE IF ends_with(name, SUPPORTED_FORMATS[i].extension)
         THEN DetectedFormat(SUPPORTED_FORMATS[i].format)
         ELSE DetectFrom(i + 1, name)

\* ArchiveFormat::autodetect
autodetect(archive_file_path) ==
    LET fname == file_name(archive_file_path)
        name == IF fname = NoPath THEN <<>> ELSE fname   \* .unwrap_or("")
    IN DetectFrom(1, name)

\* The path texts of at most n symbols.
RECURSIVE Texts(_)
Texts(n) ==
    IF n = 0 THEN {<<>>}
    ELSE LET shorter == Texts(n - 1) IN
         shorter \cup {Append(t, c) : t \in {u \in shorter : Len(u) = n - 1}, c \in Alphabet}

\* ---------------------------------------------------------------- file system
Dir == [kind |-> "dir", target |-> <<>>]
File == [kind |-> "file", target |-> <<>>]
Symlink(t) == [kind |-> "symlink", target |-> t]

\* The file system below the (mapped) target directory, keyed by relative path.
Fs ==
    (<<"l1">> :> Dir) @@ (<<"l1", "a">> :> File) @@ (<<"l1", "d">> :> Dir) @@
    (<<"l1", "d", "b">> :> File) @@
    (<<"l2">> :> Dir) @@
    (<<"l3">> :> Dir) @@ (<<"l3", "s">> :> Symlink(<<"l1", "d">>)) @@
    (<<"l3", "t">> :> Symlink(<<"l1", "a">>)) @@
    (<<"l4">> :> Dir) @@ (<<"l4", "loop">> :> Symlink(<<"l4">>))

\* The canonical relative path of cur/rest, following every symlink on the way.
RECURSIVE Canon(_, _, _)
Canon(cur, rest, fuel) ==
    IF rest = <<>> THEN cur
    ELSE LET nxt == Append(cur, Head(rest)) IN
         IF nxt \notin DOMAIN Fs THEN NoPath
         ELSE IF Fs[nxt].kind = "symlink"
              THEN IF fuel = 0 THEN NoPath
                   ELSE Canon(<<>>, Fs[nxt].target \o Tail(rest), fuel - 1)
              ELSE Canon(nxt, Tail(rest), fuel)

\* The canonical place of absolute path p, or NoPath when nothing is there.
Resolve(root, p) ==
    IF IsPrefix(root, p) THEN Canon(<<>>, strip_prefix(p, root), 8) ELSE NoPath

\* Utf8Path::is_dir: follows symlinks.
is_dir(root, p) ==
    LET c == Resolve(root, p) IN
    c # NoPath /\ (c = <<>> \/ Fs[c].kind = "dir")

\* The names read_dir yields for directory p.
ChildNames(root, p) ==
    LET c == Resolve(root, p) IN
    IF c = NoPath THEN {}
    ELSE {q[Len(q)] : q \in {r \in DOMAIN Fs : Len(r) = Len(c) + 1 /\ IsPrefix(c, r)}}

\* DirEntry::file_type of child n of directory p: does not follow the child.
file_type(root, p, n) == Fs[Append(Resolve(root, p), n)].kind

\* Every order in which the elements of S can be listed.
Orders(S) ==
    {s \in [1..Cardinality(S) -> S] : \A i, j \in 1..Cardinality(S) : s[i] = s[j] => i = j}

\* The plain files beneath relative directory d, symlinks not followed.
PlainFilesUnder(d) ==
    {q \in DOMAIN Fs : IsPrefix(d, q) /\ Len(q) > Len(d) /\ Fs[q].kind = "file"}

\* ---------------------------------------------------------------- manifests
target_directory_default == <<"ROOT", "ws", "target">>

TestNames == <<"t1", "t2", "t3", "t4">>
NonTestNames ==
    << <<"n11", "n12", "n13", "n14">>, <<"n21", "n22", "n23", "n24">>,
       <<"n31", "n32", "n33", "n34">>, <<"n41", "n42", "n43", "n44">> >>
LinkedPool == << <<"l1">>, <<"l2">>, <<"l3">>, <<"l4">> >>

\* A test binary's absolute path: inside the target directory, or (bad) outside
\* the parent of the target directory.
TestBinaryPath(td, k, bad) ==
    IF bad THEN <<"ROOT", "elsewhere", TestNames[k]>>
    ELSE td \o <<"debug", TestNames[k]>>

\* n test binaries; when bad, the last one lies outside the target directory.
TestBinaries(td, n, bad) ==
    [k \in 1..n |-> TestBinaryPath(td, k, bad /\ k = n)]

\* One group of the non-test map: binaries with paths relative to the target dir.
NonTestGroup(g, size) == [j \in 1..size |-> <<"debug", NonTestNames[g][j]>>]

NonTestMaps ==
    UNION {{[g \in 1..n |-> NonTestGroup(g, sizes[g])] :
                sizes \in [1..n -> 0..MaxGroupSize]} : n \in 0..MaxGroups}

\* The linked paths are a sorted set: the pool's elements picked, in pool order.
Increasing(n) ==
    {s \in [1..n -> 1..Len(LinkedPool)] : \A i, j \in 1..n : i < j => s[i] < s[j]}
LinkedPathSets(pool) ==
    UNION {{[i \in 1..n |-> LinkedPool[s[i]]] :
                s \in {t \in Increasing(n) : \A i \in 1..n : t[i] \in pool}} :
           n \in 0..MaxLinked}

Manifests(tds, pool) ==
    {[rust_binaries |-> TestBinaries(td, n, bad),
      non_test_binaries |-> m,
      linked_paths |-> l,
      target_directory |-> td] :
        td \in tds, n \in 0..MaxPrimary, bad \in BOOLEAN,
        m \in NonTestMaps, l \in LinkedPathSets(pool)}

\* .iter().flat_map(|(_, binaries)| binaries): the groups' binaries in one row.
RECURSIVE flat_map(_)
flat_map(groups) ==
    IF groups = <<>> THEN <<>> ELSE Head(groups) \o flat_map(Tail(groups))

\* ---------------------------------------------------------------- state
VARIABLES
    pc,              \* the position of archive_to_file
    binary_list,     \* the manifest (read-only input)
    path_mapper,     \* the path mapper (read-only input)
    host,            \* "unix" or "windows": the host's path convention
    follow,          \* the follow argument append_dir_all is called with
    dest,            \* what is visible at output_file
    dest_before,     \* what was at output_file before the call
    staging,         \* the AtomicFile's temporary file
    archiver,        \* the Archiver: builder state, entries written, file_count
    events,          \* the events handed to the callback, in order
    closure_result,  \* what the closure given to AtomicFile::write returned
    result,          \* what archive_to_file returned
    cause,           \* the step that failed, if any
    stack,           \* append_dir_all's stack
    idx,             \* the position of the loop being run
    archive_file,    \* the path given to ArchiveFormat::autodetect
    detected         \* what ArchiveFormat::autodetect returned

vars ==
    <<pc, binary_list, path_mapper, host, follow, dest, dest_before, staging, archiver,
      events, closure_result, result, cause, stack, idx, archive_file, detected>>

\* The variables of archive_to_file, and those of ArchiveFormat::autodetect.
archive_vars ==
    <<pc, binary_list, path_mapper, host, follow, dest, dest_before, staging, archiver,
      events, closure_result, result, cause, stack, idx>>
detect_vars == <<archive_file, detected>>

\* A file: what it is, the archive entries in it, and the steps of the
\* encoder's life its bytes have seen (<<>>: none; Complete: finalized).
Absent == [tag |-> "absent", entries |-> <<>>, state |-> <<>>]
OldFile == [tag |-> "old", entries |-> <<>>, state |-> <<>>]
NoStaging == [tag |-> "none", entries |-> <<>>, state |-> <<>>]
Complete == <<"open", "tar", "zstd", "buf">>

Err(class, path, isdir) == [class |-> class, path |-> path, is_dir |-> isdir]
Pending == Err("pending", NoPath, "None")
OkResult == Err("Ok", NoPath, "None")
Panicked == Err("panic", NoPath, "None")

IdentityMapper == [new_target_dir |-> NoPath]

InitOver(hosts, mappers, manifests) ==
    /\ pc = "create"
    /\ binary_list \in manifests
    /\ path_mapper \in mappers
    /\ host \in hosts
    /\ follow = TRUE
    /\ dest_before \in {Absent, OldFile}
    /\ dest = dest_before
    /\ staging = NoStaging
    /\ archiver = [builder |-> <<>>, entries |-> <<>>, file_count |-> 0]
    /\ events = <<>>
    /\ closure_result = [ok |-> FALSE, err |-> Pending, file_count |-> 0]
    /\ result = Pending
    /\ cause = "none"
    /\ stack = <<>>
    /\ idx = 1
    /\ archive_file = <<>>
    /\ detected = NotDetected

InitWith(hosts, mappers, tds, pool) == InitOver(hosts, mappers, Manifests(tds, pool))

Init == InitWith({"unix"}, {IdentityMapper}, {target_directory_default}, 1..Len(LinkedPool))

\* ---------------------------------------------------------------- archive_to_file
\* The statements of the closure and of Archiver::archive, in program order.
\* The loops ("test", "non_test", "linked") are skipped when they have no item.
\* Variants of the program order, each a slip the order could suffer.
ProgramSkipEncoderFinish ==
    <<"cb_started", "new", "serialize", "binaries_metadata", "cargo_metadata",
      "test", "non_test", "linked", "tar_finish", "buf_finish", "closure_ok">>
ProgramMetadataSwapped ==
    <<"cb_started", "new", "serialize", "cargo_metadata", "binaries_metadata",
      "test", "non_test", "linked", "tar_finish", "zstd_finish", "buf_finish",
      "closure_ok">>
ProgramNonTestFirst ==
    <<"cb_started", "new", "serialize", "binaries_metadata", "cargo_metadata",
      "non_test", "test", "linked", "tar_finish", "zstd_finish", "buf_finish",
      "closure_ok">>
ProgramStartedLate ==
    <<"new", "serialize", "binaries_metadata", "cargo_metadata", "cb_started",
      "test", "non_test", "linked", "tar_finish", "zstd_finish", "buf_finish",
      "closure_ok">>
ProgramSerializeLate ==
    <<"cb_started", "new", "binaries_metadata", "serialize", "cargo_metadata",
      "test", "non_test", "linked", "tar_finish", "zstd_finish", "buf_finish",
      "closure_ok">>
ProgramEncoderFinishFirst ==
    <<"cb_started", "new", "serialize", "binaries_metadata", "cargo_metadata",
      "test", "non_test", "linked", "zstd_finish", "tar_finish", "buf_finish",
      "closure_ok">>

Program ==
    <<"cb_started", "new", "serialize", "binaries_metadata", "cargo_metadata",
      "test", "non_test", "linked", "tar_finish", "zstd_finish", "buf_finish",
      "closure_ok">>

Skipped(p, bl) ==
    \/ p = "test" /\ bl.rust_binaries = <<>>
    \/ p = "non_test" /\ flat_map(bl.non_test_binaries) = <<>>
    \/ p = "linked" /\ bl.linked_paths = <<>>

RECURSIVE FirstFrom(_, _)
FirstFrom(i, bl) ==
    IF i > Len(Program) THEN "closure_ok"
    ELSE IF Skipped(Program[i], bl) THEN FirstFrom(i + 1, bl)
    ELSE Program[i]

After(p, bl) ==
    FirstFrom((CHOOSE i \in 1..Len(Program) : Program[i] = p) + 1, bl)

\* Where the closure's `?` sends an error: out of the closure, as its Err.
\* (The variant swallows the error and lets the closure return Ok.)
OnClosureErrPublish == "closure_ok"
OnClosureErr == "closure_err"

\* The writer the Archiver is given: the temporary file AtomicFile hands to the
\* closure, not output_file itself. (The variant writes to output_file.)
WriterTargetDest == "dest"
WriterTarget == "staging"

\* AtomicFile::new(output_file, OverwriteBehavior::AllowOverwrite)
overwrite_behavior_disallow == "DisallowOverwrite"
overwrite_behavior == "AllowOverwrite"

\* .map_err of AtomicFile::write's result. (The variant reports every failure as
\* an output error; the second hands back the payload of either kind.)
map_err_flatten(e) == Err("OutputArchiveIo", NoPath, "None")
map_err_internal_passed(e) == e.err
map_err(e) ==
    IF e.kind = "Internal" THEN Err("OutputArchiveIo", NoPath, "None") ELSE e.err

\* Where the `?` on the result of AtomicFile::write sends an error: out of
\* archive_to_file. (The variant goes on to the completion callback.)
OnWriteErrReport == "cb_archived"
OnWriteErr == "done"

\* .map_err(ArchiveCreateError::ReporterIo) on the callback's result.
callback_map_err == Err("ReporterIo", NoPath, "None")

test_binary_count(bl) == Len(bl.rust_binaries)
non_test_binary_count(bl) == Len(bl.non_test_binaries)
linked_path_count(bl) == Len(bl.linked_paths)

ArchiveStarted(bl) ==
    [type |-> "ArchiveStarted",
     test_binary_count |-> test_binary_count(bl),
     non_test_binary_count |-> non_test_binary_count(bl),
     linked_path_count |-> linked_path_count(bl)]

Archived(n) == [type |-> "Archived", file_count |-> n]

\* The bytes the Archiver has pushed through its writer land in the writer's file.
WriteThrough(a) ==
    IF WriterTarget = "staging"
    THEN /\ staging' = [staging EXCEPT !.entries = a.entries, !.state = a.builder]
         /\ UNCHANGED dest
    ELSE /\ dest' = [tag |-> "archive", entries |-> a.entries, state |-> a.builder]
         /\ UNCHANGED staging

\* The closure returns Err(e): nothing more is written.
\* (The variant notes the failure and tries the statement again.)
ClosureFailRetry(e, c) ==
    /\ cause' = c
    /\ UNCHANGED <<pc, binary_list, path_mapper, host, follow, dest, dest_before, staging,
                   archiver, events, closure_result, result, stack, idx>>
ClosureFail(e, c) ==
    /\ closure_result' = [ok |-> FALSE, err |-> e, file_count |-> 0]
    /\ cause' = c
    /\ pc' = OnClosureErr
    /\ stack' = <<>>
    /\ UNCHANGED <<binary_list, path_mapper, host, follow, dest, dest_before, staging,
                   archiver, events, result, idx>>

\* AtomicFile::write, first part: the temporary file is created.
AtomicFileCreate ==
    /\ pc = "create"
    /\ UNCHANGED detect_vars
    /\ \/ /\ staging' = [tag |-> "temp", entries |-> <<>>, state |-> <<>>]
          /\ pc' = Program[1]
          /\ UNCHANGED <<result, cause>>
       \/ /\ result' = map_err([kind |-> "Internal", err |-> Pending])
          /\ cause' = "staging_create"
          /\ pc' = OnWriteErr
          /\ UNCHANGED staging
    /\ UNCHANGED <<binary_list, path_mapper, host, follow, dest, dest_before, archiver,
                   events, closure_result, stack, idx>>

\* callback(ArchiveEvent::ArchiveStarted { .. }).map_err(ReporterIo)?
ReportArchiveStarted ==
    /\ pc = "cb_started"
    /\ UNCHANGED detect_vars
    /\ events' = Append(events, ArchiveStarted(binary_list))
    /\ \/ /\ pc' = After("cb_started", binary_list)
          /\ UNCHANGED <<closure_result, cause, stack>>
       \/ /\ closure_result' = [ok |-> FALSE, err |-> callback_map_err, file_count |-> 0]
          /\ cause' = "observer_start"
          /\ pc' = OnClosureErr
          /\ UNCHANGED stack
    /\ UNCHANGED <<binary_list, path_mapper, host, follow, dest, dest_before, staging,
                   archiver, result, idx>>

\* Archiver::new: the encoder is set up over the writer, file_count starts at 0.
ArchiverNew ==
    /\ pc = "new"
    /\ UNCHANGED detect_vars
    /\ \/ /\ archiver' = [builder |-> <<"open">>, entries |-> <<>>, file_count |-> 0]
          /\ WriteThrough(archiver')
          /\ pc' = After("new", binary_list)
          /\ UNCHANGED <<binary_list, path_mapper, host, follow, dest_before, events,
                         closure_result, result, cause, stack, idx>>
       \/ ClosureFail(Err("OutputArchiveIo", NoPath, "None"), "encoder_setup")

\* binary_list.to_string(..).map_err(CreateBinaryList)?
SerializeBinaryList ==
    /\ pc = "serialize"
    /\ UNCHANGED detect_vars
    /\ \/ /\ pc' = After("serialize", binary_list)
          /\ UNCHANGED <<binary_list, path_mapper, host, follow, dest, dest_before, staging,
                         archiver, events, closure_result, result, cause, stack, idx>>
       \/ ClosureFail(Err("CreateBinaryList", NoPath, "None"), "serialize")

\* ---------------------------------------------------------------- Archiver
BINARIES_METADATA_FILE_NAME == <<"binaries-metadata.json">>
CARGO_METADATA_FILE_NAME == <<"cargo-metadata.json">>

Entry(kind, src, dst, lp) == [kind |-> kind, src |-> src, dest |-> dst, lp |-> lp]

\* append_from_memory: one entry from memory, file_count += 1.
append_from_memory(a, kind, name) ==
    [a EXCEPT !.entries = Append(@, Entry(kind, NoPath, name, 0)),
              !.file_count = @ + 1]

\* append_path: one entry read from src, file_count += 1.
append_path(a, kind, src, dst, lp) ==
    [a EXCEPT !.entries = Append(@, Entry(kind, src, dst, lp)),
              !.file_count = @ + 1]

\* The loops over the binaries: append_path, then self.file_count += 1.
append_binary(a, kind, src, dst) ==
    LET b == append_path(a, kind, src, dst, 0) IN
    [b EXCEPT !.file_count = @ + 1]

\* The loop at pc goes on with its next item, or the program goes on after it.
LoopNext(p, n) ==
    IF idx < n
    THEN pc' = p /\ idx' = idx + 1
    ELSE pc' = After(p, binary_list) /\ idx' = 1

AppendBinariesMetadata ==
    /\ pc = "binaries_metadata"
    /\ UNCHANGED detect_vars
    /\ \/ /\ archiver' = append_from_memory(archiver, "binaries_metadata",
                                            BINARIES_METADATA_FILE_NAME)
          /\ WriteThrough(archiver')
          /\ pc' = After("binaries_metadata", binary_list)
          /\ UNCHANGED <<binary_list, path_mapper, host, follow, dest_before, events,
                         closure_result, result, cause, stack, idx>>
       \/ ClosureFail(Err("OutputArchiveIo", NoPath, "None"), "write_memory")

AppendCargoMetadata ==
    /\ pc = "cargo_metadata"
    /\ UNCHANGED detect_vars
    /\ \/ /\ archiver' = append_from_memory(archiver, "cargo_metadata",
                                            CARGO_METADATA_FILE_NAME)
          /\ WriteThrough(archiver')
          /\ pc' = After("cargo_metadata", binary_list)
          /\ UNCHANGED <<binary_list, path_mapper, host, follow, dest_before, events,
                         closure_result, result, cause, stack, idx>>
       \/ ClosureFail(Err("OutputArchiveIo", NoPath, "None"), "write_memory")

\* for binary in &self.binary_list.rust_binaries { .. }
AppendTestBinary ==
    /\ pc = "test"
    /\ UNCHANGED detect_vars
    /\ LET binary == binary_list.rust_binaries[idx]
           tparent == parent(binary_list.target_directory)
           rel == IF tparent = NoPath THEN NoPath ELSE strip_prefix(binary, tparent)
       IN IF rel = NoPath
          THEN \* .expect(..) panics; the unwinding drops the temporary file
               /\ closure_result' = [ok |-> FALSE, err |-> Panicked, file_count |-> 0]
               /\ cause' = "strip_prefix"
               /\ pc' = "closure_err"
               /\ UNCHANGED <<binary_list, path_mapper, host, follow, dest, dest_before,
                              staging, archiver, events, result, stack, idx>>
          ELSE LET rel_path == convert_rel_path_to_forward_slash(as_str(rel, host), host) IN
               \/ /\ archiver' = append_binary(archiver, "test", binary, rel_path)
                  /\ WriteThrough(archiver')
                  /\ LoopNext("test", Len(binary_list.rust_binaries))
                  /\ UNCHANGED <<binary_list, path_mapper, host, follow, dest_before, events,
                                 closure_result, result, cause, stack>>
               \/ \E c \in {"read_src", "write_out"} :
                      ClosureFail(Err("InputFileRead", binary, "Some(false)"), c)

\* target_directory.join(&non_test_binary.path), then path_mapper.map_binary.
\* (The variant leaves the mapper out.)
non_test_src_path_unmapped(pm, bl, rel) == join(bl.target_directory, rel)
non_test_src_path(pm, bl, rel) == map_binary(pm, bl, join(bl.target_directory, rel))

\* for non_test_binary in ...non_test_binaries.iter().flat_map(..) { .. }
AppendNonTestBinary ==
    /\ pc = "non_test"
    /\ UNCHANGED detect_vars
    /\ LET all == flat_map(binary_list.non_test_binaries)
           non_test_binary == all[idx]
           src_path == non_test_src_path(path_mapper, binary_list, non_test_binary)
           rel_path == convert_rel_path_to_forward_slash(
                           join_str(<<"target">>, non_test_binary, host), host)
       IN \/ /\ archiver' = append_binary(archiver, "non_test", src_path, rel_path)
             /\ WriteThrough(archiver')
             /\ LoopNext("non_test", Len(all))
             /\ UNCHANGED <<binary_list, path_mapper, host, follow, dest_before, events,
                            closure_result, result, cause, stack>>
          \/ \E c \in {"read_src", "write_out"} :
                 ClosureFail(Err("InputFileRead", src_path, "Some(false)"), c)

\* ---------------------------------------------------------------- append_dir_all
\* The directory the file system model is rooted at: the mapped target directory.
FsRoot == map_binary(path_mapper, binary_list, binary_list.target_directory)

\* The arguments of the current append_dir_all call (lines 202-211).
walk_src_path ==
    map_binary(path_mapper, binary_list,
               join(binary_list.target_directory, binary_list.linked_paths[idx]))
walk_rel_path ==
    convert_rel_path_to_forward_slash(
        join_str(<<"target">>, binary_list.linked_paths[idx], host), host)
\* The follow argument of append_dir_all. (The variant passes false.)
walk_follow_off == FALSE
walk_follow == follow

\* Where the entry named by p lies: its directory's canonical place, its name.
Place(p) ==
    LET dir == Resolve(FsRoot, SubSeq(p, 1, Len(p) - 1)) IN
    IF dir = NoPath THEN NoPath ELSE Append(dir, p[Len(p)])

\* A path more than MaxDepth below src_path that has come round a cycle of
\* symlinks is kept as its shortest prefix naming the same entry.
Fold(p) ==
    LET short == {k \in (Len(walk_src_path) + 1)..(Len(p) - 1) :
                      Place(SubSeq(p, 1, k)) = Place(p)}
    IN IF Len(p) - Len(walk_src_path) <= MaxDepth \/ short = {} THEN p
       ELSE SubSeq(p, 1, CHOOSE k \in short : \A j \in short : k <= j)

StackItem(src, isdir, issym) == [src |-> src, is_dir |-> isdir, is_symlink |-> issym]

\* if is_dir || (is_symlink && follow && src.is_dir())
\* (The variant descends only through followed symlinks.)
Descends_symlink_only(item, fl) ==
    item.is_symlink /\ fl /\ is_dir(FsRoot, item.src)
Descends(item, fl) ==
    item.is_dir \/ (item.is_symlink /\ fl /\ is_dir(FsRoot, item.src))

\* The errors of one turn of the loop: read_dir_utf8 failed on src, reading an
\* entry of src failed, file_type failed on child n of src.
\* (The variant of the last carries the directory's path, not the child's.)
read_dir_err(src) == Err("InputFileRead", src, "Some(true)")
dir_entry_err(src) == Err("DirEntryRead", src, "None")
file_type_err_parent(src, n) == Err("InputFileRead", src, "None")
file_type_err(src, n) == Err("InputFileRead", Append(src, n), "None")

\* let mut stack = vec![(src_path.to_path_buf(), true, false)];
AppendDirAllStart ==
    /\ pc = "linked"
    /\ UNCHANGED detect_vars
    /\ stack' = <<StackItem(walk_src_path, TRUE, FALSE)>>
    /\ pc' = "walk"
    /\ UNCHANGED <<binary_list, path_mapper, host, follow, dest, dest_before, staging,
                   archiver, events, closure_result, result, cause, idx>>

\* The walk goes on while the stack holds an item; then the next linked path.
WalkNext ==
    IF stack' # <<>>
    THEN pc' = "walk" /\ idx' = idx
    ELSE LoopNext("linked", Len(binary_list.linked_paths))

\* stack.push(..) for every entry of the listing, onto what the pop left.
\* (The variant loses the items that were waiting.)
push_all_dropping(rest, children) == children
push_all(rest, children) == rest \o children

\* entry.path(): the listed directory's path as it was given, joined with the
\* entry's name. (The variant gives the entry's resolved place instead.)
entry_path_resolved(src, n) == FsRoot \o Append(Resolve(FsRoot, src), n)
entry_path(src, n) == Append(src, n)

\* One turn of `while let Some((src, is_dir, is_symlink)) = stack.pop()`.
AppendDirAllStep ==
    /\ pc = "walk"
    /\ UNCHANGED detect_vars
    /\ stack # <<>>
    /\ LET item == stack[Len(stack)]
           rest == SubSeq(stack, 1, Len(stack) - 1)
           src == item.src
           dst == join_str(walk_rel_path, strip_prefix(src, walk_src_path), host)
           names == ChildNames(FsRoot, src)
       IN IF Descends(item, walk_follow)
          THEN \/ /\ is_dir(FsRoot, src)
                  /\ \A n \in names :
                         Len(Fold(entry_path(src, n))) - Len(walk_src_path) <= MaxDepth
                  /\ \E order \in Orders(names) :
                         stack' = push_all(rest,
                             [i \in 1..Len(order) |->
                                 StackItem(Fold(entry_path(src, order[i])),
                                           file_type(FsRoot, src, order[i]) = "dir",
                                           file_type(FsRoot, src, order[i]) = "symlink")])
                  /\ WalkNext
                  /\ UNCHANGED <<binary_list, path_mapper, host, follow, dest, dest_before,
                                 staging, archiver, events, closure_result, result,
                                 cause>>
               \/ ClosureFail(read_dir_err(src), "read_dir")
               \/ /\ names # {}
                  /\ ClosureFail(dir_entry_err(src), "dir_entry")
               \/ \E n \in names :
                      ClosureFail(file_type_err(src, n), "file_type")
          ELSE \/ /\ archiver' = append_path(archiver, "linked", src, dst, idx)
                  /\ WriteThrough(archiver')
                  /\ stack' = rest
                  /\ WalkNext
                  /\ UNCHANGED <<binary_list, path_mapper, host, follow, dest_before, events,
                                 closure_result, result, cause>>
               \/ \E c \in {"read_src", "write_out"} :
                      ClosureFail(Err("InputFileRead", src, "Some(false)"), c)

\* ---------------------------------------------------------------- finish
\* One of the three finishing calls of Archiver::archive (lines 217-227).
FinishStep(p, step) ==
    /\ pc = p
    /\ UNCHANGED detect_vars
    /\ \/ /\ archiver' = [archiver EXCEPT !.builder = Append(@, step)]
          /\ WriteThrough(archiver')
          /\ pc' = After(p, binary_list)
          /\ closure_result' =
                 IF p = "buf_finish"
                 THEN [ok |-> TRUE, err |-> OkResult, file_count |-> archiver.file_count]
                 ELSE closure_result
          /\ UNCHANGED <<binary_list, path_mapper, host, follow, dest_before, events,
                         result, cause, stack, idx>>
       \/ ClosureFail(Err("OutputArchiveIo", NoPath, "None"), p)

BuilderIntoInner == FinishStep("tar_finish", "tar")
EncoderFinish == FinishStep("zstd_finish", "zstd")
BufWriterIntoInner == FinishStep("buf_finish", "buf")

\* AtomicFile::write, the closure returned Ok: the temporary file replaces
\* output_file (AllowOverwrite), or the machinery fails and output_file stays.
AtomicFilePublish ==
    /\ pc = "closure_ok"
    /\ UNCHANGED detect_vars
    /\ \/ /\ overwrite_behavior = "AllowOverwrite" \/ dest.tag = "absent"
          /\ dest' = [tag |-> "archive", entries |-> staging.entries,
                      state |-> staging.state]
          /\ staging' = [staging EXCEPT !.tag = "published"]
          /\ pc' = "cb_archived"
          /\ UNCHANGED <<result, cause>>
       \/ /\ staging' = [staging EXCEPT !.tag = "gone"]
          /\ result' = map_err([kind |-> "Internal", err |-> Pending])
          /\ cause' \in {"publish"} \cup
                 (IF overwrite_behavior # "AllowOverwrite" /\ dest.tag # "absent"
                  THEN {"publish_exists"} ELSE {})
          /\ pc' = OnWriteErr
          /\ UNCHANGED dest
    /\ UNCHANGED <<binary_list, path_mapper, host, follow, dest_before, archiver, events,
                   closure_result, stack, idx>>

\* AtomicFile::write, the closure returned Err (or panicked): the temporary
\* file is dropped and the closure's error is handed back as Error::User.
AtomicFileDiscard ==
    /\ pc = "closure_err"
    /\ UNCHANGED detect_vars
    /\ staging' = [staging EXCEPT !.tag = "gone"]
    /\ result' = map_err([kind |-> "User", err |-> closure_result.err])
    /\ pc' = OnWriteErr
    /\ UNCHANGED <<binary_list, path_mapper, host, follow, dest, dest_before, archiver,
                   events, closure_result, cause, stack, idx>>

\* callback(ArchiveEvent::Archived { file_count, .. }).map_err(ReporterIo)?
ReportArchived ==
    /\ pc = "cb_archived"
    /\ UNCHANGED detect_vars
    /\ events' = Append(events, Archived(closure_result.file_count))
    /\ \/ result' = OkResult /\ UNCHANGED cause
       \/ result' = callback_map_err /\ cause' = "observer_end"
    /\ pc' = "done"
    /\ UNCHANGED <<binary_list, path_mapper, host, follow, dest, dest_before, staging,
                   archiver, closure_result, stack, idx>>

Next ==
    \/ AtomicFileCreate
    \/ ReportArchiveStarted
    \/ ArchiverNew
    \/ SerializeBinaryList
    \/ AppendBinariesMetadata
    \/ AppendCargoMetadata
    \/ AppendTestBinary
    \/ AppendNonTestBinary
    \/ AppendDirAllStart
    \/ AppendDirAllStep
    \/ BuilderIntoInner
    \/ EncoderFinish
    \/ BufWriterIntoInner
    \/ AtomicFilePublish
    \/ AtomicFileDiscard
    \/ ReportArchived

Spec == Init /\ [][Next]_vars

\* ---------------------------------------------------------------- paths varied
\* archive_to_file over small manifests, with the host convention, the path
\* mapper and the target directory varied.
RemapMapper == [new_target_dir |-> <<"ROOT", "moved", "target">>]

\* One test binary build/debug/mytest, target directory build, nothing else.
ScenarioManifest ==
    [rust_binaries |-> << <<"build", "debug", "mytest">> >>,
     non_test_binaries |-> <<>>,
     linked_paths |-> <<>>,
     target_directory |-> <<"build">>]

PathManifests ==
    {m \in Manifests({target_directory_default, <<"build">>, <<"ROOT">>}, {1, 3}) :
        /\ Len(m.rust_binaries) <= 1
        /\ Len(m.non_test_binaries) <= 1
        /\ Len(flat_map(m.non_test_binaries)) <= 1
        /\ Len(m.linked_paths) <= 1}
    \cup {ScenarioManifest}

InitPaths == InitOver({"unix", "windows"}, {IdentityMapper, RemapMapper}, PathManifests)

SpecPaths == InitPaths /\ [][Next]_vars

\* ---------------------------------------------------------------- the walk's arguments varied
\* append_dir_all over one linked path at a time: a plain directory, a directory
\* holding symlinks, a symlink to a directory, a symlink to a file, a directory
\* holding a symlink back to itself; follow set either way. The program runs on
\* as long as it has a step to take.
WalkRoots == {<<"l1">>, <<"l3">>, <<"l3", "s">>, <<"l3", "t">>, <<"l4">>}

WalkManifests ==
    {[rust_binaries |-> TestBinaries(target_directory_default, 1, FALSE),
      non_test_binaries |-> << NonTestGroup(1, 1) >>,
      linked_paths |-> <<root>>,
      target_directory |-> target_directory_default] : root \in WalkRoots}

InitWalk ==
    /\ pc = "create"
    /\ binary_list \in WalkManifests
    /\ path_mapper = IdentityMapper
    /\ host = "unix"
    /\ follow \in BOOLEAN
    /\ dest_before \in {Absent, OldFile}
    /\ dest = dest_before
    /\ staging = NoStaging
    /\ archiver = [builder |-> <<>>, entries |-> <<>>, file_count |-> 0]
    /\ events = <<>>
    /\ closure_result = [ok |-> FALSE, err |-> Pending, file_count |-> 0]
    /\ result = Pending
    /\ cause = "none"
    /\ stack = <<>>
    /\ idx = 1
    /\ archive_file = <<>>
    /\ detected = NotDetected

SpecWalk == InitWalk /\ [][Next]_vars /\ WF_vars(Next)

\* ---------------------------------------------------------------- two runs
\* archive_to_file called a second time with the same arguments, on the same
\* file system, after a first call that succeeded: output_file now holds the
\* first run's archive, and the observer goes on receiving events.
RunAgain ==
    /\ pc = "done"
    /\ result = OkResult
    /\ dest_before.tag # "archive"
    /\ pc' = "create"
    /\ dest_before' = dest
    /\ staging' = NoStaging
    /\ archiver' = [builder |-> <<>>, entries |-> <<>>, file_count |-> 0]
    /\ closure_result' = [ok |-> FALSE, err |-> Pending, file_count |-> 0]
    /\ result' = Pending
    /\ cause' = "none"
    /\ stack' = <<>>
    /\ idx' = 1
    /\ UNCHANGED <<binary_list, path_mapper, host, follow, dest, events>>
    /\ UNCHANGED detect_vars

NextTwice == Next \/ RunAgain

InitTwice == InitOver({"unix"}, {IdentityMapper}, WalkManifests)

SpecTwice == InitTwice /\ [][NextTwice]_vars

\* ---------------------------------------------------------------- autodetect alone
\* ArchiveFormat::autodetect applied to every path text of at most MaxNameLen
\* symbols; archive_to_file is not called.
InitDetect ==
    /\ archive_file \in Texts(MaxNameLen)
    /\ detected = NotDetected
    /\ pc = "autodetect"
    /\ binary_list = [rust_binaries |-> <<>>, non_test_binaries |-> <<>>,
                       linked_paths |-> <<>>, target_directory |-> target_directory_default]
    /\ path_mapper = IdentityMapper
    /\ host = "unix"
    /\ follow = TRUE
    /\ dest_before = Absent
    /\ dest = Absent
    /\ staging = NoStaging
    /\ archiver = [builder |-> <<>>, entries |-> <<>>, file_count |-> 0]
    /\ events = <<>>
    /\ closure_result = [ok |-> FALSE, err |-> Pending, file_count |-> 0]
    /\ result = Pending
    /\ cause = "none"
    /\ stack = <<>>
    /\ idx = 1

Autodetect ==
    /\ pc = "autodetect"
    /\ detected' = autodetect(archive_file)
    /\ pc' = "detected"
    /\ UNCHANGED <<binary_list, path_mapper, host, follow, dest, dest_before, staging,
                   archiver, events, closure_result, result, cause, stack, idx,
                   archive_file>>

SpecDetect == InitDetect /\ [][Autodetect]_vars

\* ---------------------------------------------------------------- properties
Done == pc = "done"
Succeeded == Done /\ result = OkResult
ErrorClasses ==
    {"OutputArchiveIo", "InputFileRead", "DirEntryRead", "CreateBinaryList", "ReporterIo"}
Failed == Done /\ result.class \in ErrorClasses

P == Len(binary_list.rust_binaries)
S == Len(flat_map(binary_list.non_test_binaries))
RECURSIVE SumFiles(_)
SumFiles(lps) ==
    IF lps = <<>> THEN 0
    ELSE Cardinality(PlainFilesUnder(Head(lps))) + SumFiles(Tail(lps))
F == SumFiles(binary_list.linked_paths)

\* The closure given to AtomicFile::write ran and returned an error.
ClosureFailed == ~closure_result.ok /\ closure_result.err.class \in ErrorClasses
\* The archive a successful run leaves at output_file.
NewArchive == [tag |-> "archive", entries |-> archiver.entries, state |-> Complete]

\* C1: a successful run reports exactly 2 + P + S + F entries, as the value
\* archive() returns and as the file_count of the completion event.
C1_EntryCount ==
    Succeeded =>
        /\ closure_result.file_count = 2 + P + S + F
        /\ events[Len(events)].file_count = 2 + P + S + F

\* C2: when the write operation (the closure) fails at any step, output_file is
\* as it was before the call: the same content, or still absent.
C2_FailedWriteLeavesDest ==
    (pc \in {"closure_err", "done"} /\ ClosureFailed) => dest = dest_before
C2_Witness ==
    /\ Done /\ ClosureFailed /\ cause = "write_out"
    /\ Len(archiver.entries) >= 3
    /\ dest_before = OldFile /\ dest = OldFile /\ staging.tag = "gone"

\* C3 as claimed: whenever archive_to_file returns an error of any class, the
\* staging output is discarded and output_file is as before the call.
C3_AnyErrorLeavesDest ==
    Failed => (dest = dest_before /\ staging.tag # "published")
\* C3 amended: an error that arises before publishing leaves output_file as it
\* was and the staging file discarded; a failure of the observer on the
\* completion event comes after publishing, and leaves the complete new archive.
C3_ErrorBeforePublishLeavesDest ==
    Failed =>
        IF cause = "observer_end"
        THEN dest = NewArchive /\ staging.tag = "published" /\ result.class = "ReporterIo"
        ELSE dest = dest_before /\ staging.tag \in {"none", "gone"}
C3_Witness ==
    /\ Failed /\ cause = "observer_end" /\ dest_before = OldFile
    /\ dest = NewArchive /\ Len(dest.entries) >= 3

\* C4: in every state output_file shows its content from before the call or
\* the complete, finalized archive; never a partly written one.
C4_DestNeverPartial ==
    dest = dest_before \/ (dest = NewArchive /\ closure_result.ok)
C4_Witness ==
    /\ pc = "walk" /\ staging.tag = "temp" /\ Len(staging.entries) >= 3
    /\ staging.state # Complete /\ dest = dest_before /\ dest_before = OldFile

\* C5 as claimed: the staging result is published if and only if the write
\* operation succeeds; after a successful write output_file holds the new archive.
C5_PublishedIffWriteSucceeds ==
    Done => (closure_result.ok <=> dest = NewArchive)
\* C5 amended: published only if the write operation succeeds; when it succeeds
\* and the publish step itself does not fail, the new archive replaces whatever
\* was at output_file; when the publish step fails, output_file stays as it was
\* and the error is OutputArchiveIo.
C5_PublishedOnlyIfWriteSucceeds ==
    /\ dest # dest_before => (closure_result.ok /\ dest = NewArchive)
    /\ (pc \in {"cb_archived", "done"} /\ closure_result.ok /\ cause # "publish")
           => dest = NewArchive
    /\ (Done /\ cause = "publish")
           => (dest = dest_before /\ result.class = "OutputArchiveIo")
C5_Witness ==
    /\ Succeeded /\ closure_result.ok /\ dest_before = OldFile /\ dest = NewArchive

\* C6: the first entry written is the binary-list manifest, the second the raw
\* build-metadata blob, and no later entry is one of the two; a produced archive
\* holds both, whatever the manifest holds.
ManifestFirst(es) ==
    /\ Len(es) >= 1 => (es[1].kind = "binaries_metadata"
                         /\ es[1].dest = BINARIES_METADATA_FILE_NAME)
    /\ Len(es) >= 2 => (es[2].kind = "cargo_metadata"
                         /\ es[2].dest = CARGO_METADATA_FILE_NAME)
    /\ \A i \in 3..Len(es) : es[i].kind \in {"test", "non_test", "linked"}
C6_ManifestEntriesFirst ==
    /\ ManifestFirst(archiver.entries)
    /\ ManifestFirst(staging.entries)
    /\ dest.tag = "archive" => (Len(dest.entries) >= 2 /\ ManifestFirst(dest.entries))
C6_Witness ==
    /\ dest.tag = "archive" /\ Len(dest.entries) > 2 /\ P + S > 0 /\ F > 0

\* C7: after the two manifest entries come the test binaries, then the non-test
\* binaries, then the linked paths' files, one linked path after the other.
Rank(e) ==
    CASE e.kind = "test" -> 1 [] e.kind = "non_test" -> 2 [] e.kind = "linked" -> 3
      [] OTHER -> 0
PhaseOrdered(es) ==
    \A i, j \in 1..Len(es) :
        i < j => (Rank(es[i]) <= Rank(es[j]) /\ es[i].lp <= es[j].lp)
C7_PhaseOrder ==
    PhaseOrdered(archiver.entries) /\ PhaseOrdered(dest.entries)
C7_Witness ==
    /\ dest.tag = "archive"
    /\ \E i, j, k, l \in 1..Len(dest.entries) :
           /\ dest.entries[i].kind = "test" /\ dest.entries[j].kind = "non_test"
           /\ dest.entries[k].lp = 1 /\ dest.entries[l].lp = 2

\* C8: a successful call hands the observer exactly two events, started then
\* completed; the started event comes before anything is written, the completed
\* event after the archive is finalized, and there is no event per entry.
HasArchived == \E i \in 1..Len(events) : events[i].type = "Archived"
C8_TwoEvents ==
    /\ Succeeded => (Len(events) = 2 /\ events[1].type = "ArchiveStarted"
                      /\ events[2].type = "Archived")
    /\ events = <<>> => (archiver.builder = <<>> /\ archiver.entries = <<>>
                          /\ staging.entries = <<>> /\ staging.state = <<>>)
    /\ HasArchived => (archiver.builder = Complete /\ staging.state = Complete)
    /\ Len(events) <= 2
C8_Witness ==
    /\ Succeeded /\ Len(events) = 2 /\ Len(archiver.entries) >= 4

\* C9: the non-test binary count of the started event is the number of non-test
\* binaries the run archives: the binaries of all groups, flattened.
C9_StartedCountIsFlattened ==
    Len(events) >= 1 => events[1].non_test_binary_count = S

\* C10: a failure of the observer, on the start or on the completion event, is
\* returned as ReporterIo, and nothing else is returned as ReporterIo.
C10_ReporterIoIffObserverFailed ==
    Done => (cause \in {"observer_start", "observer_end"} <=> result.class = "ReporterIo")
C10_Witness ==
    /\ Done /\ cause = "observer_start" /\ result.class = "ReporterIo"
    /\ events # <<>> /\ archiver.entries = <<>>

\* ---------------------------------------------------------------- properties of autodetect
\* s is some text followed by suf.
HasSuffix(s, suf) == \E k \in 0..Len(s) : SubSeq(s, 1, k) \o suf = s
IndexMin(I) == CHOOSE i \in I : \A j \in I : i <= j
\* What follows the last "/" of s (all of s when it has none).
AfterLastSlash(s) ==
    LET slashes == {i \in 1..Len(s) : s[i] = "/"}
        last == IF slashes = {} THEN 0 ELSE CHOOSE i \in slashes : \A j \in slashes : j <= i
    IN SubSeq(s, last + 1, Len(s))
HasSlash(s) == \E i \in 1..Len(s) : s[i] = "/"

\* C11: autodetect returns the format of the first registered pair whose suffix
\* the path's file name ends with; when there is none (the empty path and a
\* bare separator included) it returns UnknownArchiveFormat, never a format.
C11_AutodetectFirstMatch ==
    pc = "detected" =>
        LET fname == file_name(archive_file)
            name == IF fname = NoPath THEN <<>> ELSE fname
            matches == {i \in 1..Len(SUPPORTED_FORMATS) :
                            HasSuffix(name, SUPPORTED_FORMATS[i].extension)}
        IN /\ matches # {} =>
                  detected = DetectedFormat(SUPPORTED_FORMATS[IndexMin(matches)].format)
           /\ matches = {} => (~detected.ok /\ detected.format = "none")
           /\ archive_file \in {<<>>, <<"/">>} => ~detected.ok
C11_Witness ==
    /\ pc = "detected" /\ detected = DetectedFormat("TarZst")
    /\ archive_file = <<"/", "a", ".", "tar", ".", "zst">>

\* C12: only the final component counts: a suffix found only in a parent
\* directory does not match, and the error carries the file name alone (the
\* empty text when the path has no file name), not the path.
C12_FinalComponentOnly ==
    pc = "detected" =>
        LET last == AfterLastSlash(archive_file) IN
        /\ (last # <<>> /\ last # <<".">> /\ last # <<".", ".">>) =>
               /\ detected.ok <=> \E i \in 1..Len(SUPPORTED_FORMATS) :
                                      HasSuffix(last, SUPPORTED_FORMATS[i].extension)
               /\ ~detected.ok => detected.file_name = last
        /\ archive_file \in {<<>>, <<"/">>} => (~detected.ok /\ detected.file_name = <<>>)
        /\ ~detected.ok => ~HasSlash(detected.file_name)
C12_Witness ==
    /\ pc = "detected" /\ ~detected.ok
    /\ archive_file = <<".", "tar", ".", "zst", "/", "a">>
    /\ detected.file_name = <<"a">>

\* ---------------------------------------------------------------- properties of paths
\* The components of a destination text, its separators left out.
DestComponents(d) == SelectSeq(d, LAMBDA t : t # "/" /\ t # "\\")
BuildRoot == binary_list.target_directory
BuildRootParent == SubSeq(BuildRoot, 1, Len(BuildRoot) - 1)
\* Where the build root's content is read from.
MappedBuildRoot ==
    IF path_mapper.new_target_dir = NoPath THEN BuildRoot ELSE path_mapper.new_target_dir
Range(f) == {f[i] : i \in DOMAIN f}
HasKinds(es) ==
    /\ \E i \in 1..Len(es) : es[i].kind = "test"
    /\ \E i \in 1..Len(es) : es[i].kind = "non_test"
    /\ \E i \in 1..Len(es) : es[i].kind = "linked"

\* C13: a test binary is stored at its source path relative to the parent of
\* the build root, a non-test binary at target/<its relative path>, a file
\* under a linked path at target/<linked path>/<its path inside the linked dir>.
C13_DestinationPaths ==
    \A i \in 1..Len(archiver.entries) :
        LET e == archiver.entries[i] IN
        /\ e.kind = "test" =>
               /\ e.src = binary_list.rust_binaries[i - 2]
               /\ BuildRootParent \o DestComponents(e.dest) = e.src
        /\ e.kind = "non_test" =>
               DestComponents(e.dest) =
                   <<"target">> \o flat_map(binary_list.non_test_binaries)[i - 2 - P]
        /\ e.kind = "linked" =>
               LET linked == binary_list.linked_paths[e.lp]
                   root == MappedBuildRoot \o linked
               IN /\ IsPrefix(root, e.src)
                  /\ DestComponents(e.dest) =
                         <<"target">> \o linked \o SubSeq(e.src, Len(root) + 1, Len(e.src))
C13_Witness ==
    /\ Succeeded /\ HasKinds(dest.entries)
    /\ BuildRoot = <<"build">> /\ path_mapper = IdentityMapper

C15_MapperOnBuildRootPaths ==
    \A i \in 1..Len(archiver.entries) :
        LET e == archiver.entries[i] IN
        /\ e.kind = "test" => e.src = binary_list.rust_binaries[i - 2]
        /\ e.kind = "non_test" =>
               e.src = MappedBuildRoot \o flat_map(binary_list.non_test_binaries)[i - 2 - P]
        /\ e.kind = "linked" =>
               IsPrefix(MappedBuildRoot \o binary_list.linked_paths[e.lp], e.src)
        /\ e.kind \in {"non_test", "linked"} => DestComponents(e.dest)[1] = "target"
        /\ "moved" \notin Range(e.dest)
C15_Witness ==
    /\ Succeeded /\ HasKinds(dest.entries)
    /\ path_mapper = RemapMapper /\ BuildRoot = target_directory_default

\* C16: the scenario (one test binary build/debug/mytest, build root build)
\* gives three entries, the third at debug/mytest, and a reported count of 3.
C16_Scenario ==
    (binary_list = ScenarioManifest /\ Succeeded) =>
        /\ Len(dest.entries) = 3
        /\ dest.entries[1].kind = "binaries_metadata"
        /\ dest.entries[2].kind = "cargo_metadata"
        /\ DestComponents(dest.entries[3].dest) = <<"debug", "mytest">>
        /\ events[2].file_count = 3

\* ---------------------------------------------------------------- properties of the walk
\* The positions of the entries the walk of linked path k wrote for source src.
WalkedAt(k, src) ==
    {i \in 1..Len(archiver.entries) :
        /\ archiver.entries[i].kind = "linked"
        /\ archiver.entries[i].lp = k
        /\ archiver.entries[i].src = src}
\* The symlinks of the file system lying under linked path lp.
SymlinksUnder(lp) == {q \in DOMAIN Fs : IsPrefix(lp, q) /\ Fs[q].kind = "symlink"}

\* C17: in a finished walk (follow enabled) a symlink to a directory gives one
\* entry for every file inside the target, stored under the symlink's own
\* path; a symlink to a file gives exactly one entry and nothing beneath it.
C17_SymlinksFollowed ==
    Succeeded =>
        \A k \in 1..Len(binary_list.linked_paths) :
            \A q \in SymlinksUnder(binary_list.linked_paths[k]) :
                LET t == Fs[q].target IN
                IF Fs[t].kind = "dir"
                THEN \A f \in PlainFilesUnder(t) :
                         LET inside == SubSeq(f, Len(t) + 1, Len(f)) IN
                         /\ Cardinality(WalkedAt(k, FsRoot \o q \o inside)) = 1
                         /\ \A i \in WalkedAt(k, FsRoot \o q \o inside) :
                                DestComponents(archiver.entries[i].dest) =
                                    <<"target">> \o q \o inside
                ELSE /\ Cardinality(WalkedAt(k, FsRoot \o q)) = 1
                     /\ \A i \in 1..Len(archiver.entries) :
                            IsPrefix(FsRoot \o q, archiver.entries[i].src)
                                => archiver.entries[i].src = FsRoot \o q
C17_Witness ==
    /\ Succeeded
    /\ \E k \in 1..Len(binary_list.linked_paths) :
           /\ binary_list.linked_paths[k] = <<"l3">>
           /\ WalkedAt(k, FsRoot \o <<"l3", "s", "b">>) # {}
           /\ WalkedAt(k, FsRoot \o <<"l3", "t">>) # {}

\* C18: the walk never writes an entry for a directory: every entry of a
\* linked path is a leaf, its source neither a directory nor a symlink to one.
C18_NoDirectoryEntries ==
    \A i \in 1..Len(archiver.entries) :
        archiver.entries[i].kind = "linked" => ~is_dir(FsRoot, archiver.entries[i].src)
C18_Witness ==
    /\ Succeeded
    /\ \E i \in 1..Len(archiver.entries) :
           archiver.entries[i].src = FsRoot \o <<"l1", "d", "b">>
    /\ \E i \in 1..Len(archiver.entries) :
           archiver.entries[i].src = FsRoot \o <<"l3", "s", "b">>

\* C19: at every point of a run the Archiver's counter equals the number of
\* entries written so far.
C19_CounterIsEntriesWritten == archiver.file_count = Len(archiver.entries)

\* ---------------------------------------------------------------- properties of errors
\* What failed, by the side it is on: the destination output, or a source.
OutputCauses ==
    {"staging_create", "encoder_setup", "write_memory", "write_out",
     "tar_finish", "zstd_finish", "buf_finish", "publish", "publish_exists"}
InputCauses == {"read_src", "read_dir", "file_type"}

\* C20: every failure writing to the destination output, one met while
\* appending a binary or a walked file included, is reported as
\* OutputArchiveIo, and InputFileRead only for a failure reading a source.
C20_OutputFailuresAreOutputIo ==
    Failed =>
        /\ cause \in OutputCauses => result.class = "OutputArchiveIo"
        /\ result.class = "InputFileRead" => cause \in InputCauses

\* ---------------------------------------------------------------- properties of failure
\* The error class each failing step gives, as the source maps it.
ClassOfCause ==
    [c \in OutputCauses \cup InputCauses
           \cup {"serialize", "dir_entry", "observer_start", "observer_end", "strip_prefix"} |->
        CASE c \in {"staging_create", "encoder_setup", "write_memory", "tar_finish",
                    "zstd_finish", "buf_finish", "publish", "publish_exists"}
                 -> "OutputArchiveIo"
          [] c = "serialize" -> "CreateBinaryList"
          [] c \in {"read_src", "write_out", "read_dir", "file_type"} -> "InputFileRead"
          [] c = "dir_entry" -> "DirEntryRead"
          [] c \in {"observer_start", "observer_end"} -> "ReporterIo"
          [] OTHER -> "panic"]
SomeStepFailed == cause # "none"

\* C21: the first failing step ends the run: from then on nothing is written,
\* finalized, published or reported, no step runs again or fails a second time,
\* and the run returns the error of that step.
C21_FirstFailureEndsRun ==
    /\ [][SomeStepFailed =>
              /\ pc' = "done"
              /\ cause' = cause
              /\ archiver' = archiver
              /\ dest' = dest
              /\ events' = events
              /\ closure_result' = closure_result
              /\ staging'.entries = staging.entries /\ staging'.state = staging.state
              /\ staging'.tag # "published"]_vars
    /\ [](Done /\ SomeStepFailed =>
              /\ result.class = ClassOfCause[cause]
              /\ closure_result.err \notin {Pending, OkResult} => result = closure_result.err)
C21_Witness ==
    /\ Done /\ cause = "read_dir" /\ result.class = "InputFileRead"
    /\ Len(archiver.entries) >= 3 /\ archiver.builder = <<"open">>
    /\ staging.tag = "gone" /\ dest = dest_before

\* C22: when the start observer, the write operation or the publish step
\* fails, the completed event is never handed to the observer; when the start
\* observer fails, no Archiver was made and nothing was written.
C22_NoCompletedEventOnFailure ==
    /\ (SomeStepFailed /\ cause # "observer_end") => ~HasArchived
    /\ HasArchived => (closure_result.ok /\ staging.tag = "published")
    /\ cause = "observer_start" =>
           /\ archiver.builder = <<>> /\ archiver.entries = <<>>
           /\ archiver.file_count = 0
           /\ staging.entries = <<>> /\ staging.state = <<>>
C22_Witness ==
    /\ Done /\ cause = "publish" /\ closure_result.ok
    /\ Len(events) = 1 /\ events[1].type = "ArchiveStarted"
    /\ Len(archiver.entries) >= 3

\* C23: a failure to serialize the binary list ends the run with
\* CreateBinaryList before any entry is written to the staging output, and
\* output_file is as it was; nothing else gives CreateBinaryList.
C23_SerializeFailsBeforeWriting ==
    /\ cause = "serialize" =>
           /\ archiver.entries = <<>> /\ archiver.file_count = 0
           /\ staging.entries = <<>>
           /\ dest = dest_before
           /\ ~HasArchived
           /\ Done => (result.class = "CreateBinaryList" /\ staging.tag = "gone")
    /\ (Done /\ result.class = "CreateBinaryList") => cause = "serialize"
C23_Witness ==
    /\ Done /\ cause = "serialize" /\ result.class = "CreateBinaryList"
    /\ dest_before = OldFile /\ dest = OldFile /\ archiver.builder = <<"open">>

\* C24: a failure of the staging and publish machinery is returned as
\* OutputArchiveIo; an error of the write operation is returned as it is, the
\* same variant with the same payload, never turned into OutputArchiveIo.
MachineryCauses == {"staging_create", "publish", "publish_exists"}
C24_ErrorSourcesKeptApart ==
    Done =>
        /\ cause \in MachineryCauses => result = Err("OutputArchiveIo", NoPath, "None")
        /\ (SomeStepFailed /\ cause \notin MachineryCauses \cup {"observer_end"}) =>
               /\ result = closure_result.err
               /\ closure_result.err.class # "OutputArchiveIo"
                      => result.class # "OutputArchiveIo"
C24_Witness ==
    /\ Done /\ cause = "file_type" /\ result.class = "InputFileRead"
    /\ result.is_dir = "None" /\ result.path # NoPath
    /\ result = closure_result.err

\* ---------------------------------------------------------------- properties of the order
\* C25: on the way to success the last entry is written, then the container
\* writer is closed, the encoder finished, the buffered writer flushed and the
\* raw writer recovered, the staging output published, the completed event
\* handed over: no publish before the encoder is finished, no completed event
\* before the publish.
C25_FinishOrder ==
    /\ [](/\ IsPrefix(archiver.builder, Complete)
          /\ dest # dest_before =>
                 (archiver.builder = Complete /\ staging.state = Complete
                  /\ staging.tag = "published")
          /\ HasArchived => (staging.tag = "published" /\ dest = NewArchive))
    /\ [][Len(archiver.builder) >= 2 => archiver'.entries = archiver.entries]_vars
C25_Witness ==
    /\ Succeeded /\ HasArchived /\ archiver.builder = Complete
    /\ dest_before = Absent /\ dest = NewArchive /\ staging.tag = "published" /\ F > 0

\* ---------------------------------------------------------------- properties of the walk's errors
\* The item the walk has on top of its stack, and a step that fails with cause c.
Top == stack[Len(stack)]
FailsWith(c) == cause = "none" /\ cause' = c
StopsWalk ==
    /\ pc' = "closure_err" /\ archiver' = archiver /\ staging' = staging
    /\ stack' = <<>> /\ dest' = dest

\* C26 as claimed: a failure to open or to list a directory is an input-read
\* error with the directory's path and is_dir = true; a failure of one child's
\* file type is an input-read error with the child's path; each stops the walk.
C26_ListFailureIsInputRead ==
    /\ [][(FailsWith("read_dir") \/ FailsWith("dir_entry")) =>
              /\ closure_result'.err = Err("InputFileRead", Top.src, "Some(true)")
              /\ StopsWalk]_vars
    /\ [][FailsWith("file_type") =>
              /\ closure_result'.err.class = "InputFileRead"
              /\ \E n \in ChildNames(FsRoot, Top.src) :
                     closure_result'.err.path = Append(Top.src, n)
              /\ StopsWalk]_vars
\* C26 amended: a failure to open a directory is InputFileRead with the
\* directory's path and is_dir = Some(true); a failure reading one entry of the
\* listing is DirEntryRead with the directory's path; a failure of one child's
\* file type is InputFileRead with the child's path and is_dir = None; each
\* stops the walk at once and is the error the run returns.
C26_WalkErrors ==
    /\ [][FailsWith("read_dir") =>
              /\ closure_result'.err = Err("InputFileRead", Top.src, "Some(true)")
              /\ StopsWalk]_vars
    /\ [][FailsWith("dir_entry") =>
              /\ closure_result'.err = Err("DirEntryRead", Top.src, "None")
              /\ StopsWalk]_vars
    /\ [][FailsWith("file_type") =>
              /\ \E n \in ChildNames(FsRoot, Top.src) :
                     closure_result'.err = Err("InputFileRead", Append(Top.src, n), "None")
              /\ closure_result'.err.path # Top.src
              /\ StopsWalk]_vars
    /\ [](Done /\ cause \in {"read_dir", "dir_entry", "file_type"}
              => result = closure_result.err)
C26_Witness ==
    /\ Done /\ cause = "dir_entry" /\ result.class = "DirEntryRead"
    /\ result.path = FsRoot \o <<"l1", "d">> /\ Len(archiver.entries) >= 2

\* ---------------------------------------------------------------- properties of following
\* The entry named by p is a symlink.
SymlinkAt(p) == Place(p) \in DOMAIN Fs /\ Fs[Place(p)].kind = "symlink"
\* This step of the walk lists the children of the item on top of the stack.
Enumerates ==
    /\ pc = "walk" /\ stack # <<>> /\ cause' = "none"
    /\ \E i \in 1..Len(stack') :
           /\ Len(stack'[i].src) = Len(Top.src) + 1
           /\ IsPrefix(Top.src, stack'[i].src)
           /\ Len(stack) <= i

C30_WalkTerminates == (pc = "walk") ~> (pc # "walk")

\* ---------------------------------------------------------------- properties of the panic
\* The test binary at position k lies inside the parent of the build root.
InsideBuildRootParent(k) ==
    /\ BuildRoot \notin {<<>>, <<"ROOT">>}
    /\ IsPrefix(BuildRootParent, binary_list.rust_binaries[k])

\* C28: a test binary outside the parent of the build root, or a build root
\* without a parent, ends the run by a panic, not by an ArchiveCreateError: in
\* the loop over the test binaries, after the two manifest entries were
\* written to staging, with output_file not published. No entry is ever
\* written for such a binary.
C28_OutsideBinaryPanics ==
    /\ cause = "strip_prefix" =>
           /\ ~InsideBuildRootParent(idx)
           /\ \A k \in 1..(idx - 1) : InsideBuildRootParent(k)
           /\ closure_result.err = Panicked
           /\ Len(archiver.entries) = 2 + (idx - 1)
           /\ ManifestFirst(archiver.entries) /\ ManifestFirst(staging.entries)
           /\ \A i \in 3..Len(archiver.entries) : archiver.entries[i].kind = "test"
           /\ dest = dest_before /\ staging.tag # "published" /\ ~HasArchived
           /\ Done => (result = Panicked /\ result.class \notin ErrorClasses)
    /\ \A i \in 1..Len(archiver.entries) :
           archiver.entries[i].kind = "test" => InsideBuildRootParent(i - 2)
    /\ (Done /\ result = Panicked) => cause = "strip_prefix"
C28_Witness ==
    /\ Done /\ cause = "strip_prefix" /\ result = Panicked
    /\ binary_list.rust_binaries[1] = <<"ROOT", "elsewhere", "t1">>
    /\ Len(staging.entries) = 2 /\ dest_before = OldFile /\ dest = OldFile

\* ---------------------------------------------------------------- properties of two runs
\* C29: two runs over the same manifest, path mapper and file system write the
\* same entries, with the same sources and destinations in the same order, and
\* report the same entry count.
C29_SecondRunSameEntries ==
    (Succeeded /\ dest_before.tag = "archive") =>
        /\ dest.entries = dest_before.entries
        /\ events[4].file_count = events[2].file_count

\* ---------------------------------------------------------------- properties of the walk's coverage
\* The walk of linked path k has returned Ok.
WalkReturned(k) ==
    \/ pc \in {"linked", "walk"} /\ idx > k /\ cause = "none"
    \/ pc = "tar_finish"
    \/ Len(archiver.builder) >= 2
\* The positions of the entries the walk of linked path k wrote.
WalkedBy(k) ==
    {i \in 1..Len(archiver.entries) :
        archiver.entries[i].kind = "linked" /\ archiver.entries[i].lp = k}

\* C31: for a linked directory tree without symlinks, a walk that returns Ok
\* has appended every plain file beneath the root exactly once: none skipped,
\* none twice, as many entries as the tree has plain files (none for an empty
\* directory); and at no point of the walk is a file there twice.
C31_EveryPlainFileOnce ==
    \A k \in 1..Len(binary_list.linked_paths) :
        LET lp == binary_list.linked_paths[k] IN
        SymlinksUnder(lp) = {} =>
            /\ \A i \in WalkedBy(k) :
                   /\ \E f \in PlainFilesUnder(lp) : archiver.entries[i].src = FsRoot \o f
                   /\ Cardinality(WalkedAt(k, archiver.entries[i].src)) = 1
            /\ WalkReturned(k) =>
                   /\ \A f \in PlainFilesUnder(lp) :
                          Cardinality(WalkedAt(k, FsRoot \o f)) = 1
                   /\ Cardinality(WalkedBy(k)) = Cardinality(PlainFilesUnder(lp))
C31_Witness ==
    /\ Succeeded
    /\ binary_list.linked_paths = << <<"l1">>, <<"l2">> >>
    /\ Cardinality(WalkedBy(1)) = 2 /\ WalkedBy(2) = {}

\* C32: every path put on the walk's stack has the walk's root src_path as a
\* prefix, the children reached through a followed symlink to a directory
\* included, so stripping the root off it to get the destination never fails.
C32_StackUnderRoot ==
    pc = "walk" =>
        \A i \in 1..Len(stack) :
            /\ IsPrefix(walk_src_path, stack[i].src)
            /\ strip_prefix(stack[i].src, walk_src_path) # NoPath
C32_Witness ==
    /\ pc = "walk" /\ walk_src_path = FsRoot \o <<"l3">>
    /\ \E i \in 1..Len(stack) : stack[i].src = FsRoot \o <<"l3", "s", "b">>

====
